---- MODULE Spec2Model ----
(***************************************************************************)
(* Model of Zaawansowane5.cpp: midpoint-rule integration of                *)
(* f(x) = sqrt(1 - x^2) over [0,1] with T worker threads.                  *)
(*                                                                         *)
(* The main thread and every worker thread are processes with their own    *)
(* program counter.  A double is a fixed-point number in units of 1/Unit   *)
(* that is rounded to Mant significant bits after every operation (ties to *)
(* even), with two special values for +infinity and NaN.  The variable     *)
(* exact selects idealised arithmetic (no rounding to Mant bits), which    *)
(* is what statements "under exact addition" are about.                    *)
(***************************************************************************)
EXTENDS Integers, Sequences, FiniteSets

\* ---------------------------------------------------------------- bounds
MaxN == 8
MaxT == 3
MaxNeg == 1

\* ------------------------------------------------------- double arithmetic
Unit == 120
Mant == 4
PosInf == -1
NaN == -2

VARIABLES
    exact,          \* TRUE: idealised arithmetic, FALSE: Mant-bit floating point
    N, T,           \* the inputs read by main
    mainPc,         \* main's position
    step, chunk, remainder, currentStart, currentEnd,
    mi,             \* the loop variable i of main's two loops
    threads,        \* std::vector<std::thread>: the state of each handle
    threadData,     \* std::vector<ThreadData>
    totalSum, integralValue, pi_approx, exitCode,
    wpc,            \* position of each worker thread
    wi,             \* the loop variable i of threadFunction, per worker
    partialSum,     \* the local partialSum of threadFunction, per worker
    evals,          \* history: the indices at which each worker evaluated f
    reads,          \* history: main's reads of threadData[i].sum
    accessLog,      \* history: the accesses made to the fields of threadData
    sumWrites,      \* history: per slot, who assigned its sum, in order
    starts,         \* history: the slots whose thread main started, in order
    joins           \* history: main's calls of join, in order

vars == <<exact, N, T, mainPc, step, chunk, remainder, currentStart, currentEnd,
          mi, threads, threadData, totalSum, integralValue, pi_approx, exitCode,
          wpc, wi, partialSum, evals, reads, accessLog, sumWrites, starts, joins>>

mainVars == <<N, T, step, chunk, remainder, currentStart, currentEnd,
              totalSum, integralValue, pi_approx, exitCode>>

\* The power of two that is one unit in the last place of a Mant-bit value v.
RECURSIVE Ulp(_)
Ulp(v) == IF v < 2 ^ Mant THEN 1 ELSE 2 * Ulp(v \div 2)

\* Round to nearest representable value, ties to even.
Rnd(v) ==
    LET u == Ulp(v)
        q == v \div u
        r == v % u
    IN  IF 2 * r < u THEN q * u
        ELSE IF 2 * r > u THEN (q + 1) * u
        ELSE IF q % 2 = 0 THEN q * u
        ELSE (q + 1) * u

\* The largest magnitude a double of the program takes, with a margin.
MaxDouble == (2 * MaxN + 4) * Unit

\* Rnd, tabulated once
RndTable == [v \in 0 .. MaxDouble |-> Rnd(v)]

\* The result of one double operation whose mathematical value is v.
Fl(v) == IF exact THEN v ELSE RndTable[v]

IsSpecial(a) == a = PosInf \/ a = NaN

\* a + b on doubles
Add(a, b) ==
    IF a = NaN \/ b = NaN THEN NaN
    ELSE IF a = PosInf \/ b = PosInf THEN PosInf
    ELSE Fl(a + b)

\* a * b on doubles (both non-negative here)
Mul(a, b) ==
    IF a = NaN \/ b = NaN THEN NaN
    ELSE IF a = PosInf \/ b = PosInf
         THEN (IF a = 0 \/ b = 0 THEN NaN ELSE PosInf)
    ELSE Fl((a * b) \div Unit)

\* 1.0 / static_cast<double>(n)
StepOf(n) == IF n = 0 THEN PosInf ELSE Fl(Unit \div n)

\* (static_cast<double>(i) + 0.5) * step
Midpoint(i, s) ==
    IF IsSpecial(s) THEN s ELSE Fl(((2 * i + 1) * s) \div 2)

\* floor of the square root of v, by bisection on lo..hi
RECURSIVE SqrtSearch(_, _, _)
SqrtSearch(v, lo, hi) ==
    IF lo = hi THEN lo
    ELSE LET mid == (lo + hi + 1) \div 2
         IN  IF mid * mid <= v THEN SqrtSearch(v, mid, hi)
             ELSE SqrtSearch(v, lo, mid - 1)

\* std::sqrt on the values 0 .. 1.0 * 1.0, tabulated once
SqrtTable == [v \in 0 .. Unit * Unit |-> SqrtSearch(v, 0, Unit)]

\* f(x) = sqrt(1 - x*x); a negative argument of sqrt gives NaN
f(x) ==
    IF IsSpecial(x) THEN NaN
    ELSE IF x * x > Unit * Unit THEN NaN
    ELSE Fl(SqrtTable[Unit * Unit - x * x])

\* ------------------------------------------------------- integer widths
\* unsigned long long holds the values 0 .. ULLMod - 1 and wraps modulo
\* ULLMod; the input N ranges over the whole type.
ULLMod == MaxN + 1

\* the result of an unsigned long long operation of mathematical value v
Wrap(v) == v % ULLMod

\* the conversion of an int to unsigned long long
ToULL(i) == i % ULLMod

\* ----------------------------------------------------------------- state
Slots == 0 .. (T - 1)

\* one access of thread who (worker w, or main with w = -1) to a field of
\* threadData[slot], with the state of the slot's thread at that moment
Access(who, w, slot, field, kind) ==
    [who |-> who, w |-> w, slot |-> slot, field |-> field, kind |-> kind,
     handle |-> threads[slot], state |-> wpc[slot]]

ThreadData(s, e, sm, st) == [start |-> s, end |-> e, sum |-> sm, step |-> st]

Init ==
    /\ exact \in BOOLEAN
    /\ N = 0 /\ T = 0
    /\ mainPc = "read"
    /\ step = 0 /\ chunk = 0 /\ remainder = 0
    /\ currentStart = 0 /\ currentEnd = 0 /\ mi = 0
    /\ threads = << >>
    /\ threadData = << >>
    /\ totalSum = 0 /\ integralValue = 0 /\ pi_approx = 0
    /\ exitCode = -1
    /\ wpc = << >> /\ wi = << >> /\ partialSum = << >>
    /\ evals = << >>
    /\ reads = << >>
    /\ accessLog = {}
    /\ sumWrites = << >>
    /\ starts = << >>
    /\ joins = << >>


\* ------------------------------------------------------------ main thread
\* lines 80-90: read N and T, then step = 1.0 / N
ReadInput ==
    /\ mainPc = "read"
    /\ \E n \in 0 .. MaxN, t \in (0 - MaxNeg) .. MaxT :
          /\ N' = n
          /\ T' = t
          /\ step' = StepOf(n)
    /\ mainPc' = "alloc"
    /\ UNCHANGED <<exact, chunk, remainder, currentStart, currentEnd, mi, threads,
                   threadData, totalSum, integralValue, pi_approx, exitCode,
                   wpc, wi, partialSum, evals, reads,
                   accessLog, sumWrites, starts, joins>>

\* lines 93-94: the two vectors of T elements.  A negative T converts to a
\* size above max_size(): the constructor throws std::length_error, nothing
\* catches it and the program is terminated.
AllocVectors ==
    /\ mainPc = "alloc"
    /\ IF T < 0
       THEN /\ mainPc' = "aborted"
            /\ UNCHANGED <<threads, threadData, wpc, wi, partialSum, evals,
                           sumWrites>>
       ELSE /\ mainPc' = "chunk"
            /\ threads' = [i \in Slots |-> "empty"]
            /\ threadData' = [i \in Slots |-> ThreadData(0, 0, 0, 0)]
            /\ wpc' = [i \in Slots |-> "none"]
            /\ wi' = [i \in Slots |-> 0]
            /\ partialSum' = [i \in Slots |-> 0]
            /\ evals' = [i \in Slots |-> << >>]
            /\ sumWrites' = [i \in Slots |-> << >>]
    /\ UNCHANGED <<exact, N, T, step, chunk, remainder, currentStart, currentEnd,
                   mi, totalSum, integralValue, pi_approx, exitCode, reads,
                   accessLog, starts, joins>>

\* lines 97-100 and the loop initialisation of line 102.  With T = 0 the
\* integer division N / T is undefined: the program either traps or goes on
\* with arbitrary values of chunk and remainder.
ComputeChunk ==
    /\ mainPc = "chunk"
    /\ IF T = 0
       THEN \/ /\ mainPc' = "crashed"
               /\ UNCHANGED <<chunk, remainder, currentStart, mi>>
            \/ /\ mainPc' = "part"
               /\ chunk' \in 0 .. MaxN
               /\ remainder' \in 0 .. MaxN
               /\ currentStart' = 0
               /\ mi' = 0
       ELSE /\ mainPc' = "part"
            /\ chunk' = N \div ToULL(T)
            /\ remainder' = N % ToULL(T)
            /\ currentStart' = 0
            /\ mi' = 0
    /\ UNCHANGED <<exact, N, T, step, currentEnd, threads, threadData, totalSum,
                   integralValue, pi_approx, exitCode, wpc, wi, partialSum,
                   evals, reads,
                   accessLog, sumWrites, starts, joins>>

\* RangeEnd with the extra subinterval given to the last workers
RangeEnd_ExtraToLast(cs, ch, rem, i) ==
    IF i >= T - rem THEN Wrap(cs + ch + 1) ELSE Wrap(cs + ch)

\* RangeEnd with the comparison i <= remainder
RangeEnd_Le(cs, ch, rem, i) ==
    IF ToULL(i) <= rem THEN Wrap(cs + ch + 1) ELSE Wrap(cs + ch)

\* lines 107-110: the end of worker i's range; the int i is converted to
\* unsigned long long for the comparison, the sums wrap
RangeEnd(cs, ch, rem, i) ==
    IF ToULL(i) < rem THEN Wrap(cs + ch + 1) ELSE Wrap(cs + ch)

\* InitSlot that is one slot behind
InitSlot_Prev(i) == IF i > 0 THEN i - 1 ELSE 0

\* lines 112-115: the slot that pass i of the partitioning loop initialises
InitSlot(i) == i

\* lines 102-115: one pass of the partitioning loop up to the thread start
AssignSlot ==
    /\ mainPc = "part"
    /\ mi < T
    /\ currentEnd' = RangeEnd(currentStart, chunk, remainder, mi)
    /\ LET k == InitSlot(mi)
       IN  /\ threadData' = [threadData EXCEPT
                   ![k] = ThreadData(currentStart, currentEnd', 0, step)]
           /\ accessLog' = accessLog \cup {Access("main", -1, k, fld, "write") :
                                 fld \in {"start", "end", "step", "sum"}}
           /\ sumWrites' = [sumWrites EXCEPT ![k] = Append(@, "main")]
    /\ mainPc' = "start"
    /\ UNCHANGED <<exact, N, T, step, chunk, remainder, currentStart, mi, threads,
                   totalSum, integralValue, pi_approx, exitCode, wpc, wi,
                   partialSum, evals, reads, starts, joins>>

\* NextStart that advances by chunk and forgets the extra subinterval
NextStart_Chunk(cs, ce) == cs + chunk

\* line 120: the next worker starts where this one ends
NextStart(cs, ce) == ce

\* lines 118-121: start thread i, advance currentStart, ++i
StartThread ==
    /\ mainPc = "start"
    /\ threads' = [threads EXCEPT ![mi] = "joinable"]
    /\ wpc' = [wpc EXCEPT ![mi] = "entry"]
    /\ currentStart' = NextStart(currentStart, currentEnd)
    /\ starts' = Append(starts, mi)
    /\ mi' = mi + 1
    /\ mainPc' = "part"
    /\ UNCHANGED <<exact, N, T, step, chunk, remainder, currentEnd, threadData,
                   totalSum, integralValue, pi_approx, exitCode, wi, partialSum,
                   evals, reads, accessLog, sumWrites, joins>>

\* BeginReduce that keeps i = T, so that the join loop is skipped
BeginReduce_NoJoin ==
    /\ mainPc = "part"
    /\ ~(mi < T)
    /\ totalSum' = 0
    /\ mainPc' = "join"
    /\ UNCHANGED <<exact, N, T, step, chunk, remainder, currentStart, currentEnd,
                   mi, threads, threadData, integralValue, pi_approx, exitCode,
                   wpc, wi, partialSum, evals, reads,
                   accessLog, sumWrites, starts, joins>>

\* lines 102, 124-125: the partitioning loop ends, the join loop begins
BeginReduce ==
    /\ mainPc = "part"
    /\ ~(mi < T)
    /\ totalSum' = 0
    /\ mi' = 0
    /\ mainPc' = "join"
    /\ UNCHANGED <<exact, N, T, step, chunk, remainder, currentStart, currentEnd,
                   threads, threadData, integralValue, pi_approx, exitCode,
                   wpc, wi, partialSum, evals, reads,
                   accessLog, sumWrites, starts, joins>>

\* JoinReady of a join that does not wait for the thread
JoinReady_NoWait(i) == TRUE

\* line 126: join() returns once thread i has finished executing
JoinReady(i) == wpc[i] = "finished"

\* line 126: threads[i].join()
Join ==
    /\ mainPc = "join"
    /\ mi < T
    /\ JoinReady(mi)
    /\ threads' = [threads EXCEPT ![mi] = "joined"]
    /\ joins' = Append(joins, [slot |-> mi, handle |-> threads[mi],
                               state |-> wpc[mi]])
    /\ mainPc' = "acc"
    /\ UNCHANGED <<exact, N, T, step, chunk, remainder, currentStart, currentEnd,
                   mi, threadData, totalSum, integralValue, pi_approx, exitCode,
                   wpc, wi, partialSum, evals, reads, accessLog, sumWrites, starts>>

\* ReduceSlot that adds the slot after the one just joined
ReduceSlot_Next(i) == (i + 1) % T

\* ReduceSlot that adds the slots in the order T-1, ..., 0
ReduceSlot_Reverse(i) == T - 1 - i

\* line 127: the slot whose sum is added in pass i of the join loop
ReduceSlot(i) == i

\* line 127: totalSum += threadData[i].sum, then ++i
Accumulate ==
    /\ mainPc = "acc"
    /\ LET k == ReduceSlot(mi)
       IN  /\ totalSum' = Add(totalSum, threadData[k].sum)
           /\ reads' = Append(reads,
                  [slot |-> k,
                   val |-> threadData[k].sum,
                   handle |-> threads[k],
                   finished |-> {j \in Slots : wpc[j] = "finished"}])
           /\ accessLog' = accessLog \cup {Access("main", -1, k, "sum", "read")}
    /\ mi' = mi + 1
    /\ mainPc' = "join"
    /\ UNCHANGED <<exact, N, T, step, chunk, remainder, currentStart, currentEnd,
                   threads, threadData, integralValue, pi_approx, exitCode,
                   wpc, wi, partialSum, evals, sumWrites, starts, joins>>

\* lines 125, 131-142: the join loop ends, the result is computed and
\* printed, main returns 0
Finish ==
    /\ mainPc = "join"
    /\ ~(mi < T)
    /\ integralValue' = Mul(step, totalSum)
    /\ pi_approx' = Mul(4 * Unit, integralValue')
    /\ exitCode' = 0
    /\ mainPc' = "done"
    /\ UNCHANGED <<exact, N, T, step, chunk, remainder, currentStart, currentEnd,
                   mi, threads, threadData, totalSum, wpc, wi, partialSum,
                   evals, reads,
                   accessLog, sumWrites, starts, joins>>

\* --------------------------------------------------------- worker threads
\* lines 59-61: partialSum = 0.0 and i = data.start
WorkerEnter(w) ==
    /\ wpc[w] = "entry"
    /\ partialSum' = [partialSum EXCEPT ![w] = 0]
    /\ wi' = [wi EXCEPT ![w] = threadData[w].start]
    /\ wpc' = [wpc EXCEPT ![w] = "loop"]
    /\ accessLog' = accessLog \cup {Access("worker", w, w, "start", "read")}
    /\ UNCHANGED <<exact, mainVars, mainPc, mi, threads, threadData, evals, reads,
                   sumWrites, starts, joins>>

\* LoopCond with the comparison i <= data.end
LoopCond_Le(i, e) == i <= e

\* line 61: the loop condition i < data.end
LoopCond(i, e) == i < e

\* WorkerIter that also stores the running sum into data.sum in every pass
WorkerIter_StoreEach(w) ==
    /\ wpc[w] = "loop"
    /\ LoopCond(wi[w], threadData[w].end)
    /\ partialSum' = [partialSum EXCEPT
                        ![w] = Add(@, f(Midpoint(wi[w], threadData[w].step)))]
    /\ threadData' = [threadData EXCEPT ![w].sum = partialSum'[w]]
    /\ sumWrites' = [sumWrites EXCEPT ![w] = Append(@, "worker")]
    /\ evals' = [evals EXCEPT ![w] = Append(@, wi[w])]
    /\ wi' = [wi EXCEPT ![w] = @ + 1]
    /\ accessLog' = accessLog \cup {Access("worker", w, w, fld, "read") :
                                     fld \in {"end", "step"}}
                              \cup {Access("worker", w, w, "sum", "write")}
    /\ UNCHANGED <<exact, mainVars, mainPc, mi, threads, wpc, reads, starts, joins>>

\* WorkerIter that adds each term to main's totalSum as well
WorkerIter_SharedTotal(w) ==
    /\ wpc[w] = "loop"
    /\ LoopCond(wi[w], threadData[w].end)
    /\ partialSum' = [partialSum EXCEPT
                        ![w] = Add(@, f(Midpoint(wi[w], threadData[w].step)))]
    /\ totalSum' = Add(totalSum, f(Midpoint(wi[w], threadData[w].step)))
    /\ evals' = [evals EXCEPT ![w] = Append(@, wi[w])]
    /\ wi' = [wi EXCEPT ![w] = @ + 1]
    /\ accessLog' = accessLog \cup {Access("worker", w, w, fld, "read") :
                                     fld \in {"end", "step"}}
    /\ UNCHANGED <<exact, N, T, step, chunk, remainder, currentStart, currentEnd,
                   integralValue, pi_approx, exitCode, mainPc, mi, threads,
                   threadData, wpc, reads, sumWrites, starts, joins>>

\* lines 61-64: one iteration, partialSum += f((i + 0.5) * step), ++i
WorkerIter(w) ==
    /\ wpc[w] = "loop"
    /\ LoopCond(wi[w], threadData[w].end)
    /\ partialSum' = [partialSum EXCEPT
                        ![w] = Add(@, f(Midpoint(wi[w], threadData[w].step)))]
    /\ evals' = [evals EXCEPT ![w] = Append(@, wi[w])]
    /\ wi' = [wi EXCEPT ![w] = @ + 1]
    /\ accessLog' = accessLog \cup {Access("worker", w, w, fld, "read") :
                                     fld \in {"end", "step"}}
    /\ UNCHANGED <<exact, mainVars, mainPc, mi, threads, threadData, wpc, reads,
                   sumWrites, starts, joins>>

\* StoreSlot of workers that were all handed the first slot
StoreSlot_First(w) == 0

\* lines 59, 118: the slot that the reference data of worker w is bound to
StoreSlot(w) == w

\* lines 61, 65: the loop ends, data.sum = partialSum
WorkerStore(w) ==
    /\ wpc[w] = "loop"
    /\ ~LoopCond(wi[w], threadData[w].end)
    /\ LET k == StoreSlot(w)
       IN  /\ threadData' = [threadData EXCEPT ![k].sum = partialSum[w]]
           /\ accessLog' = accessLog \cup {Access("worker", w, w, "end", "read"),
                                Access("worker", w, k, "sum", "write")}
           /\ sumWrites' = [sumWrites EXCEPT ![k] = Append(@, "worker")]
    /\ wpc' = [wpc EXCEPT ![w] = "ret"]
    /\ UNCHANGED <<exact, mainVars, mainPc, mi, threads, wi, partialSum, evals,
                   reads, starts, joins>>

\* line 66: threadFunction returns and the thread finishes
WorkerReturn(w) ==
    /\ wpc[w] = "ret"
    /\ wpc' = [wpc EXCEPT ![w] = "finished"]
    /\ UNCHANGED <<exact, mainVars, mainPc, mi, threads, threadData, wi,
                   partialSum, evals, reads,
                   accessLog, sumWrites, starts, joins>>

threadFunction(w) ==
    \/ WorkerEnter(w)
    \/ WorkerIter(w)
    \/ WorkerStore(w)
    \/ WorkerReturn(w)

main ==
    \/ ReadInput
    \/ AllocVectors
    \/ ComputeChunk
    \/ AssignSlot
    \/ StartThread
    \/ BeginReduce
    \/ Join
    \/ Accumulate
    \/ Finish

Workers == \E w \in DOMAIN wpc : threadFunction(w)

Next == main \/ Workers

Spec == Init /\ [][Next]_vars

\* Every thread that can take a step eventually takes one.
FairSpec ==
    /\ Spec
    /\ WF_vars(main)
    /\ \A w \in 0 .. MaxT : WF_vars(w \in DOMAIN wpc /\ threadFunction(w))

TypeOK ==
    /\ exact \in BOOLEAN
    /\ N \in 0 .. MaxN
    /\ mainPc \in {"read", "alloc", "chunk", "part", "start", "join", "acc",
                   "done", "aborted", "crashed"}
    /\ exitCode \in {-1, 0}
    /\ \A w \in DOMAIN wpc : wpc[w] \in {"none", "entry", "loop", "ret", "finished"}
    /\ \A w \in DOMAIN threads : threads[w] \in {"empty", "joinable", "joined"}


\* ----------------------------------------------------------- the partition
\* main has left the partitioning loop with valid inputs
Partitioned ==
    /\ mainPc \in {"join", "acc", "done"}
    /\ N >= 1
    /\ T >= 1

RangeLen(i) == threadData[i].end - threadData[i].start

RECURSIVE SumLen(_)
SumLen(k) == IF k = 0 THEN 0 ELSE SumLen(k - 1) + RangeLen(k - 1)

Owners(k) == {i \in Slots : threadData[i].start <= k /\ k < threadData[i].end}

\* C1: once the partitioning loop has assigned all T slots (N >= 1, T >= 1),
\* the ranges [start, end) partition [0, N): worker 0 starts at 0, each start
\* is the previous end, the last end is N, every index of [0, N) lies in
\* exactly one range, and the lengths sum to N.
C1_PartitionExact ==
    Partitioned =>
        /\ threadData[0].start = 0
        /\ \A i \in 1 .. (T - 1) : threadData[i].start = threadData[i - 1].end
        /\ threadData[T - 1].end = N
        /\ \A k \in 0 .. (N - 1) : Cardinality(Owners(k)) = 1
        /\ \A i \in Slots : \A k \in threadData[i].start .. (threadData[i].end - 1) :
              k \in 0 .. (N - 1)
        /\ SumLen(T) = N

C1_Witness ==
    /\ Partitioned
    /\ T = 3
    /\ N = 7
    /\ mainPc = "join"
    /\ mi = 0

\* C2: worker i gets (N div T) + 1 subintervals if i < N mod T and N div T
\* otherwise, so any two lengths differ by at most 1; N = 8, T = 3 gives
\* [0,3), [3,6), [6,8).
C2_EvenSplit ==
    Partitioned =>
        /\ \A i \in Slots :
              RangeLen(i) = (IF i < N % T THEN (N \div T) + 1 ELSE N \div T)
        /\ \A i, j \in Slots : RangeLen(i) - RangeLen(j) <= 1
        /\ (N = 8 /\ T = 3) =>
              /\ threadData[0].start = 0 /\ threadData[0].end = 3
              /\ threadData[1].start = 3 /\ threadData[1].end = 6
              /\ threadData[2].start = 6 /\ threadData[2].end = 8

C2_Witness ==
    /\ Partitioned
    /\ N = 8
    /\ T = 3
    /\ RangeLen(0) = 3
    /\ RangeLen(2) = 2

\* C10 as stated: every worker's range satisfies 0 <= start < end <= N.
C10_NonEmptyRanges ==
    Partitioned =>
        \A i \in Slots :
            /\ 0 <= threadData[i].start
            /\ threadData[i].start < threadData[i].end
            /\ threadData[i].end <= N

\* C10 amended: every worker's range satisfies 0 <= start <= end <= N, and
\* it is non-empty exactly for the workers i < N (for all workers if T <= N).
C10_RangesWithinN ==
    Partitioned =>
        \A i \in Slots :
            /\ 0 <= threadData[i].start
            /\ threadData[i].start <= threadData[i].end
            /\ threadData[i].end <= N
            /\ (threadData[i].start < threadData[i].end) <=> (i < N)

C10_Witness ==
    /\ Partitioned
    /\ T > N
    /\ threadData[T - 1].start = threadData[T - 1].end
    /\ threadData[0].start < threadData[0].end


\* ------------------------------------------------- sequential references
\* threadFunction run alone on the range [i, e) with step s, from acc
RECURSIVE SumRange(_, _, _, _)
SumRange(i, e, s, acc) ==
    IF i < e THEN SumRange(i + 1, e, s, Add(acc, f(Midpoint(i, s)))) ELSE acc

\* the indices i, i+1, ..., e-1 in increasing order
RECURSIVE Indices(_, _)
Indices(i, e) == IF i < e THEN <<i>> \o Indices(i + 1, e) ELSE << >>

\* the start of worker i's range as a function of the inputs n and t
StartOf(n, t, i) == i * (n \div t) + (IF i < n % t THEN i ELSE n % t)

\* the total of the first k partial sums, added in index order 0, ..., k-1
RECURSIVE TotalOf(_, _, _)
TotalOf(n, t, k) ==
    IF k = 0 THEN 0
    ELSE Add(TotalOf(n, t, k - 1),
             SumRange(StartOf(n, t, k - 1), StartOf(n, t, k), StepOf(n), 0))

\* the mathematical sum of f over the midpoints of the indices 0 .. n-1
RECURSIVE ExactSum(_)
ExactSum(n) ==
    IF n = 0 THEN 0 ELSE ExactSum(n - 1) + f(Midpoint(n - 1, StepOf(N)))

\* how often index k was evaluated, over all workers
RECURSIVE EvalCount(_, _)
EvalCount(k, w) ==
    IF w = 0 THEN 0
    ELSE EvalCount(k, w - 1)
         + Cardinality({p \in 1 .. Len(evals[w - 1]) : evals[w - 1][p] = k})

Done == mainPc = "done" /\ N >= 1 /\ T >= 1

\* --------------------------------------------------------------- reduction
\* C3: every read of threadData[i].sum by main comes after the join of
\* thread i, when worker i has written its final partial sum and finished:
\* the value read is worker i's completed partial sum.
C3_ReadAfterJoin ==
    \A k \in 1 .. Len(reads) :
        LET r == reads[k]
        IN  /\ r.handle = "joined"
            /\ r.slot \in r.finished
            /\ wpc[r.slot] = "finished"
            /\ r.val = partialSum[r.slot]
            /\ r.val = SumRange(threadData[r.slot].start, threadData[r.slot].end,
                                threadData[r.slot].step, 0)

C3_Witness ==
    /\ Len(reads) >= 2
    /\ reads[2].val > 0
    /\ \E w \in Slots : wpc[w] # "finished"

\* C4 as stated: the first addition into totalSum happens after all T
\* workers have completed, so at every read every worker has finished.
C4_FullBarrier ==
    \A k \in 1 .. Len(reads) : reads[k].finished = Slots

\* C4 amended: the addition of threadData[i].sum into totalSum happens after
\* the workers 0, ..., i have completed; workers of a larger index may
\* still be running.
C4_PrefixBarrier ==
    \A k \in 1 .. Len(reads) :
        /\ reads[k].slot = k - 1
        /\ \A j \in 0 .. reads[k].slot : j \in reads[k].finished

C4_Witness ==
    /\ Len(reads) >= 1
    /\ reads[1].slot = 0
    /\ reads[1].finished = {0}
    /\ T = 3

\* C5: each worker evaluates f at exactly the indices of its own range, each
\* once and in order; every index of [0, N) is evaluated exactly once over
\* all workers; with exact addition totalSum is the sum of f over the
\* midpoints of 0 .. N-1; the result is 4 * step * totalSum.
C5_EachIndexOnce ==
    Done =>
        /\ \A w \in Slots :
              evals[w] = Indices(threadData[w].start, threadData[w].end)
        /\ \A k \in 0 .. (N - 1) : EvalCount(k, T) = 1
        /\ exact => totalSum = ExactSum(N)
        /\ pi_approx = Mul(4 * Unit, Mul(step, totalSum))

C5_Witness ==
    /\ Done
    /\ exact
    /\ N = 4
    /\ T = 3
    /\ totalSum = ExactSum(4)
    /\ totalSum > 0

\* C6: with T > N every worker of index >= N has an empty range, runs its
\* loop zero times and contributes 0, and the final total equals the total
\* of the computation with T = 1 for the same N.
C6_MoreWorkersThanWork ==
    (Done /\ T > N) =>
        /\ \A w \in N .. (T - 1) :
              /\ threadData[w].start = threadData[w].end
              /\ evals[w] = << >>
              /\ threadData[w].sum = 0
        /\ {k \in 0 .. (N - 1) : EvalCount(k, T) = 1} = 0 .. (N - 1)
        /\ totalSum = TotalOf(N, 1, 1)

C6_Witness ==
    /\ Done
    /\ N = 2
    /\ T = 3
    /\ ~exact
    /\ totalSum > 0

\* C7: the final totalSum is the same in every interleaving: the partial
\* sums are added in index order 0, ..., T-1, each depends only on its own
\* range and step, so totalSum is a function of N and T alone.
C7_Deterministic ==
    Done =>
        /\ [k \in 1 .. Len(reads) |-> reads[k].slot] = [k \in 1 .. T |-> k - 1]
        /\ \A w \in Slots :
              threadData[w].sum = SumRange(threadData[w].start, threadData[w].end,
                                           threadData[w].step, 0)
        /\ totalSum = TotalOf(N, T, T)

C7_Witness ==
    /\ Done
    /\ ~exact
    /\ T = 3
    /\ N = 8
    /\ totalSum = TotalOf(8, 3, 3)

\* C8 as stated: with T <= 0 or N = 0 the program rejects the input before
\* partitioning: no worker thread is started and no result is produced by
\* a normal completion.
C8_RejectsInvalid ==
    (mainPc # "read" /\ (T <= 0 \/ N = 0)) =>
        /\ mainPc \notin {"part", "start", "join", "acc", "done"}
        /\ \A w \in DOMAIN wpc : wpc[w] = "none"
        /\ exitCode # 0

\* ------------------------------------------------------------- termination
\* C9: with N >= 1 and T >= 1 and fair scheduling, every worker runs its
\* loop end - start times and finishes, main joins all T threads, finishes
\* the reduction and returns 0; it neither deadlocks nor aborts.
C9_Terminates ==
    (mainPc = "alloc" /\ N >= 1 /\ T >= 1) ~>
        /\ mainPc = "done"
        /\ exitCode = 0
        /\ Len(reads) = T
        /\ \A w \in Slots :
              /\ wpc[w] = "finished"
              /\ threads[w] = "joined"
              /\ Len(evals[w]) = threadData[w].end - threadData[w].start

C9_Witness ==
    /\ Done
    /\ exitCode = 0
    /\ T = 3
    /\ N = 5
    /\ \A w \in Slots : threads[w] = "joined"


\* ------------------------------------------------------------ slot accesses
WorkerAccesses == {a \in accessLog : a.who = "worker"}
MainAccesses == {a \in accessLog : a.who = "main"}

\* C11: worker i accesses, and in particular writes, only threadData[i], so
\* no two workers write the same slot; the accesses of worker i fall between
\* the start and the end of thread i, and main neither writes nor reads
\* threadData[i] from the start of thread i until its join: a slot is never
\* accessed by two threads at the same time.
C11_ExclusiveSlots ==
    /\ \A a \in WorkerAccesses :
          /\ a.slot = a.w
          /\ a.handle = "joinable"
          /\ a.state \in {"entry", "loop"}
    /\ \A a, b \in WorkerAccesses :
          (a.kind = "write" /\ b.kind = "write" /\ a.slot = b.slot) => a.w = b.w
    /\ \A a \in MainAccesses :
          \/ a.handle = "empty" /\ a.state = "none"
          \/ a.handle = "joined" /\ a.state = "finished"

C11_Witness ==
    /\ T = 3
    /\ \E a \in MainAccesses : a.kind = "read" /\ a.slot = 0
    /\ \E a \in WorkerAccesses : a.kind = "write" /\ a.slot = 1
    /\ wpc[2] = "loop"
    /\ wi[2] > threadData[2].start

\* the number of reads of slot i's sum that main has made
ReadsOf(i) == Cardinality({k \in 1 .. Len(reads) : reads[k].slot = i})

\* C12 as stated: threadData[i].sum is written exactly once, by its owning
\* worker; no other write to it occurs.
C12_OnlyWorkerWrites ==
    \A i \in DOMAIN sumWrites :
        /\ Len(sumWrites[i]) <= 1
        /\ \A k \in 1 .. Len(sumWrites[i]) : sumWrites[i][k] = "worker"
        /\ (mainPc = "done") => sumWrites[i] = <<"worker">>

\* C12 amended: threadData[i].sum is assigned twice: 0.0 by main (line 115)
\* before thread i is started, then exactly once by its owning worker,
\* after the worker has iterated its whole range; the reducer reads it
\* exactly once, after that; no other write occurs.
C12_InitThenWorkerWrite ==
    \A i \in DOMAIN sumWrites :
        /\ wpc[i] = "none" =>
              sumWrites[i] \in {<< >>, <<"main">>}
        /\ wpc[i] \in {"entry", "loop"} => sumWrites[i] = <<"main">>
        /\ wpc[i] \in {"ret", "finished"} =>
              /\ sumWrites[i] = <<"main", "worker">>
              /\ wi[i] = threadData[i].end
              /\ Len(evals[i]) = threadData[i].end - threadData[i].start
        /\ ReadsOf(i) <= 1
        /\ ReadsOf(i) = 1 => sumWrites[i] = <<"main", "worker">>
        /\ (mainPc = "done") => ReadsOf(i) = 1

C12_Witness ==
    /\ Done
    /\ T = 3
    /\ N = 7
    /\ \A i \in Slots : sumWrites[i] = <<"main", "worker">> /\ ReadsOf(i) = 1

\* C13: a step of a worker changes nothing but the sum of its own slot:
\* start, end and step of a slot are never modified once its thread is
\* started, and a worker step changes neither another slot, nor totalSum,
\* nor currentStart.
C13_WorkerFrame ==
    [][/\ \A j \in DOMAIN threadData :
             threads[j] # "empty" =>
                /\ threadData'[j].start = threadData[j].start
                /\ threadData'[j].end = threadData[j].end
                /\ threadData'[j].step = threadData[j].step
       /\ (mainPc' = mainPc) =>
             /\ totalSum' = totalSum
             /\ currentStart' = currentStart
             /\ currentEnd' = currentEnd
             /\ \A j \in DOMAIN threadData :
                   threadData'[j] # threadData[j] =>
                      /\ wpc[j] = "loop" /\ wpc'[j] = "ret"
                      /\ threadData'[j] = [threadData[j] EXCEPT !.sum = partialSum[j]]
      ]_vars

C13_Witness ==
    /\ T = 3
    /\ mainPc = "start"
    /\ wpc[1] = "ret"
    /\ threadData[1].sum > 0
    /\ wpc[0] = "loop"
    /\ threadData[0].sum = 0

\* C14: threads are started in index order, thread i only after main wrote
\* start, end, step and sum = 0.0 of threadData[i]; every write of main to a
\* slot precedes the start of its thread, so the initial 0.0 precedes worker
\* i's write of its partial sum and never overwrites it.
C14_InitBeforeStart ==
    /\ starts = [k \in 1 .. Len(starts) |-> k - 1]
    /\ \A i \in DOMAIN wpc :
          wpc[i] # "none" =>
             /\ i + 1 \in 1 .. Len(starts)
             /\ \A fld \in {"start", "end", "step", "sum"} :
                   [who |-> "main", w |-> -1, slot |-> i, field |-> fld,
                    kind |-> "write", handle |-> "empty", state |-> "none"]
                      \in accessLog
    /\ \A a \in MainAccesses :
          a.kind = "write" => (a.handle = "empty" /\ a.state = "none")
    /\ \A i \in DOMAIN wpc :
          wpc[i] \in {"ret", "finished"} =>
             /\ threadData[i].sum = partialSum[i]
             /\ sumWrites[i][Len(sumWrites[i])] = "worker"

C14_Witness ==
    /\ T = 3
    /\ mainPc = "start"
    /\ mi = 2
    /\ wpc[0] = "finished"
    /\ threadData[0].sum > 0
    /\ wpc[2] = "none"
    /\ threadData[2].end > threadData[2].start

\* C15: exactly T threads are started, one per slot, and each is joined
\* exactly once, in index order, after it was started and before main
\* computes the result: at exit no thread is unjoined.
C15_StartedAndJoinedOnce ==
    /\ starts = [k \in 1 .. Len(starts) |-> k - 1]
    /\ Len(starts) <= T \/ T < 0
    /\ \A k \in 1 .. Len(joins) :
          /\ joins[k].slot = k - 1
          /\ joins[k].slot + 1 \in 1 .. Len(starts)
          /\ joins[k].handle = "joinable"
    /\ \A i \in DOMAIN threads :
          /\ threads[i] = "joinable" <=>
                (i + 1 \in 1 .. Len(starts) /\ ~(i + 1 \in 1 .. Len(joins)))
          /\ threads[i] = "joined" <=> i + 1 \in 1 .. Len(joins)
    /\ (mainPc = "done" /\ T >= 1) =>
          /\ Len(starts) = T
          /\ Len(joins) = T
          /\ \A i \in Slots : threads[i] = "joined"

C15_Witness ==
    /\ mainPc = "done"
    /\ T = 3
    /\ Len(starts) = 3
    /\ Len(joins) = 3
    /\ joins[3].slot = 2

\* the mathematical value of currentStart + chunk (+ 1) in pass i
NextEnd(i) == currentStart + chunk + (IF i < remainder THEN 1 ELSE 0)

\* C16: with N >= 1 and T >= 1 the partitioner never wraps: in every pass
\* 0 <= currentStart <= currentEnd <= N, currentStart + chunk (+ 1) does not
\* exceed N and so is below the modulus of unsigned long long, and the
\* comparison of the converted i with remainder agrees with the
\* mathematical one since 0 <= i < T.
C16_NoWrap ==
    (mainPc \in {"part", "start"} /\ N >= 1 /\ T >= 1) =>
        /\ 0 <= currentStart
        /\ currentStart <= currentEnd
        /\ currentEnd <= N
        /\ 0 <= mi /\ mi <= T
        /\ (mainPc = "part" /\ mi < T) =>
              /\ NextEnd(mi) <= N
              /\ NextEnd(mi) < ULLMod
              /\ (ToULL(mi) < remainder) <=> (mi < remainder)
        /\ (mainPc = "start") =>
              /\ mi < T
              /\ currentEnd = NextEnd(mi)

C16_Witness ==
    /\ mainPc = "start"
    /\ N = ULLMod - 1
    /\ T = 3
    /\ mi = 2
    /\ currentEnd = N
    /\ remainder = 2

====
